---- MODULE Spec2Model ----
(***************************************************************************)
(* The job store (MemStorage), the HTTP handlers of registerRoutes and the *)
(* in-process analysis pipeline (analyzeCode) of the code analyzer.        *)
(*                                                                         *)
(* A JavaScript value that may be undefined, null, a scalar or an object   *)
(* is a record with a "kind" field.                                        *)
(***************************************************************************)
EXTENDS Integers, Sequences, FiniteSets, TLC

\* ---------------------------------------------------------------- bounds
\* Largest value of the millisecond clock (Date) the model lets pass.
MaxClock == 1

\* Largest maxRetries a direct call of retryWithBackoff is given.
MaxRetriesArg == 4

\* The ids createJob can draw, and a request id that names no job.
Ids == {"req-1"}
UnknownId == "req-0"

\* ---------------------------------------------------------------- values
Undefined == [kind |-> "undefined"]
Null == [kind |-> "null"]
\* A truthy value that is no object, such as the JSON string "ok".
Scalar == [kind |-> "scalar"]

\* A string field or argument that is missing (undefined).
Absent == "<absent>"

CALLBACK_SECRET == "demo-secret"

VARIABLES
    N8N_WEBHOOK,  \* whether a webhook URL is configured (process.env)
    jobs,         \* MemStorage.jobs: id -> AnalysisJob
    task,         \* per accepted submission: position of its handler / pipeline
    now,          \* the clock read by new Date()
    last,         \* the last operation that ran and the response it sent
                  \* (code 0: no response sent in that step; secret: the
                  \* callback_secret a callback presented)
    run,          \* per submission: the position of its analyzeCode run when
                  \* the run is followed statement by statement
    call,         \* one call of an analyzer function: arguments and result
    retry         \* one call of retryWithBackoff: loop index, calls, waits

\* The variables that belong to the analyzer alone.
analyzerVars == <<run, call, retry>>

vars == <<N8N_WEBHOOK, jobs, task, now, last, run, call, retry>>

\* ---------------------------------------------------------------- helpers
IsObject(v) == v.kind = "object"
\* JavaScript truthiness of a results value.
Truthy(v) == v.kind \in {"scalar", "object"}

Count(seq, sev) == Len(SelectSeq(seq, LAMBDA i : i.severity = sev))

\* Map.set
MapSet(m, k, v) == [x \in DOMAIN m \cup {k} |-> IF x = k THEN v ELSE m[x]]

\* ---------------------------------------------------------------- storage
createJob(store, id, data, t) ==
    MapSet(store, id,
           [id |-> id, status |-> "pending", createdAt |-> t, updatedAt |-> t,
            repoUrl |-> data.repoUrl, analysisMode |-> data.analysisMode,
            results |-> Undefined])

\* An update that stores the results and the time but not the status.
updateJobStatus_KeepsStatus(store, id, status, results, t) ==
    IF id \notin DOMAIN store
    THEN store
    ELSE MapSet(store, id,
                [store[id] EXCEPT !.updatedAt = t,
                                  !.results = IF results # Undefined THEN results ELSE @])

\* An update that writes a fresh record under the id, known or not.
updateJobStatus_Upsert(store, id, status, results, t) ==
    MapSet(store, id,
           [id |-> id, status |-> status, createdAt |-> t, updatedAt |-> t,
            repoUrl |-> Absent, analysisMode |-> "standard",
            results |-> results])

updateJobStatus(store, id, status, results, t) ==
    IF id \notin DOMAIN store
    THEN store
    ELSE MapSet(store, id,
                [store[id] EXCEPT !.status = status,
                                  !.updatedAt = t,
                                  !.results = IF results # Undefined THEN results ELSE @])

\* ---------------------------------------------------------------- analyzer
Severities == {"critical", "major", "minor"}

Num(n) == [kind |-> "number", value |-> n]

\* The mapping without the default for a severity outside the three.
analyzeFileWithGemini_SeverityAsReported(response, relativePath) ==
    IF response.kind # "array"
    THEN <<>>
    ELSE [k \in 1..Len(response.issues) |->
            LET issue == response.issues[k] IN
            [severity |-> issue.severity,
             file |-> relativePath,
             line |-> IF issue.line.kind = "number" THEN issue.line.value ELSE 1,
             message |-> issue.message]]

\* analyzeFileWithGemini: the provider's response for one file becomes issues.
\* response.kind: "throw" (the call failed), "notext", "nojson", "nonarray",
\* or "array" with response.issues the parsed array.
analyzeFileWithGemini(response, relativePath) ==
    IF response.kind # "array"
    THEN <<>>
    ELSE [k \in 1..Len(response.issues) |->
            LET issue == response.issues[k] IN
            [severity |-> IF issue.severity \in Severities THEN issue.severity ELSE "minor",
             file |-> relativePath,
             line |-> IF issue.line.kind = "number" THEN issue.line.value ELSE 1,
             message |-> issue.message]]

\* The loop ended by the first file whose analysis failed.
RECURSIVE analyzeFilesWithGemini_StopsAtFailure(_, _)
analyzeFilesWithGemini_StopsAtFailure(files, env) ==
    IF files = <<>>
    THEN <<>>
    ELSE LET file == Head(files) IN
         IF file \in env.unreadable
         THEN analyzeFilesWithGemini_StopsAtFailure(Tail(files), env)
         ELSE IF env.analysis[file].kind # "array"
         THEN <<>>
         ELSE analyzeFileWithGemini(env.analysis[file], file)
              \o analyzeFilesWithGemini_StopsAtFailure(Tail(files), env)

\* analyzeFilesWithGemini: the files one after the other; a file that cannot be
\* read contributes nothing.
RECURSIVE analyzeFilesWithGemini(_, _)
analyzeFilesWithGemini(files, env) ==
    IF files = <<>>
    THEN <<>>
    ELSE LET file == Head(files) IN
         (IF file \in env.unreadable
          THEN <<>>
          ELSE analyzeFileWithGemini(env.analysis[file], file))
         \o analyzeFilesWithGemini(Tail(files), env)

\* A failed rewrite that yields the empty string.
refactorFileWithGemini_EmptyOnFailure(response, fileContent) ==
    IF response.kind = "text" THEN response.text ELSE ""

\* refactorFileWithGemini: the provider's rewrite, or the original content when
\* the call failed or carried no text.
refactorFileWithGemini(response, fileContent) ==
    IF response.kind = "text" THEN response.text ELSE fileContent

RECURSIVE refactorFiles(_, _)
refactorFiles(files, env) ==
    IF files = <<>>
    THEN <<>>
    ELSE LET file == Head(files) IN
         (IF file \in env.unreadable
          THEN <<>>
          ELSE <<[file |-> file,
                  original |-> env.content[file],
                  refactored |-> refactorFileWithGemini(env.refactor[file], env.content[file])]>>)
         \o refactorFiles(Tail(files), env)

QuickFilter_DropsMajor(allIssues) ==
    SelectSeq(allIssues, LAMBDA i : i.severity = "critical" \/ i.severity = "minor")

\* The quick-mode filter of analyzeCode.
QuickFilter(allIssues) ==
    SelectSeq(allIssues, LAMBDA i : i.severity = "critical" \/ i.severity = "major")

\* analyzeCode: [threw |-> TRUE] when an exception escapes, else the result.
\* zipBuffer: whether a buffer was passed; repoUrl: a URL or Absent.

analyzeCode(requestId, zipBuffer, repoUrl, analysisMode, env) ==
    IF (~zipBuffer /\ repoUrl = Absent) \/ env.prepare = "throw"
    THEN [threw |-> TRUE]
    ELSE LET pythonIssues == IF env.pythonFiles # <<>>
                             THEN analyzeFilesWithGemini(env.pythonFiles, env) ELSE <<>>
             jsIssues == IF env.jsFiles # <<>>
                         THEN analyzeFilesWithGemini(env.jsFiles, env) ELSE <<>>
             tsIssues == IF env.tsFiles # <<>>
                         THEN analyzeFilesWithGemini(env.tsFiles, env) ELSE <<>>
             combined == pythonIssues \o jsIssues \o tsIssues
             allIssues == IF analysisMode = "quick" THEN QuickFilter(combined) ELSE combined
             allFiles == env.pythonFiles \o env.jsFiles \o env.tsFiles
             languages == (IF env.pythonFiles # <<>> THEN <<"python">> ELSE <<>>)
                          \o (IF env.jsFiles # <<>> THEN <<"javascript">> ELSE <<>>)
                          \o (IF env.tsFiles # <<>> THEN <<"typescript">> ELSE <<>>)
         IN [threw |-> FALSE,
             value |->
               [kind |-> "object",
                request_id |-> requestId,
                status |-> "completed",
                summary |-> [languages |-> languages,
                             total_files_analyzed |->
                                 Len(env.pythonFiles) + Len(env.jsFiles) + Len(env.tsFiles),
                             issues_count |-> [critical |-> Count(allIssues, "critical"),
                                               major |-> Count(allIssues, "major"),
                                               minor |-> Count(allIssues, "minor")]],
                issues |-> allIssues,
                patches |-> <<>>,
                refactoredFiles |-> refactorFiles(allFiles, env)]]

\* The result the pipeline's catch block stores for a failed job.
FailedResult(requestId) ==
    [kind |-> "object",
     request_id |-> requestId,
     status |-> "failed",
     summary |-> [languages |-> <<>>, total_files_analyzed |-> 0,
                  issues_count |-> [critical |-> 0, major |-> 0, minor |-> 0]],
     issues |-> <<>>,
     patches |-> <<>>,
     refactoredFiles |-> <<>>]

\* ------------------------------------- analyzer with the local-tool fallback
\* The variant of the analyzer that has an optional AI client (env.ai), wraps
\* each provider call in retryWithBackoff (env.analysis and env.refactor hold
\* what that wrapper returned or threw) and falls back to pylint and pyflakes
\* for Python.

\* JavaScript's (x || 1) for a line number: missing and 0 become 1.
LineOr1(line) == IF line.kind = "number" /\ line.value # 0 THEN line.value ELSE 1

\* analyzePythonWithPylint: env.pylint[file] is what the tool printed:
\* "throw" (exec failed), "empty", "nojson" or "array" of pylint messages.
RECURSIVE analyzePythonWithPylint(_, _)
analyzePythonWithPylint(files, env) ==
    IF files = <<>>
    THEN <<>>
    ELSE LET file == Head(files)
             out == env.pylint[file]
         IN (IF out.kind # "array"
             THEN <<>>
             ELSE [k \in 1..Len(out.issues) |->
                     LET issue == out.issues[k] IN
                     [severity |-> IF issue.type \in {"error", "fatal"} THEN "critical"
                                   ELSE IF issue.type = "warning" THEN "major"
                                   ELSE "minor",
                      file |-> file,
                      line |-> LineOr1(issue.line),
                      message |-> IF issue.message \in {Absent, ""}
                                  THEN "Unknown issue" ELSE issue.message]])
            \o analyzePythonWithPylint(Tail(files), env)

\* String.includes for the messages pyflakes prints in this model.
Includes(message, word) ==
    \/ message = "undefined name x" /\ word = "undefined"
    \/ message = "os imported but unused" /\ word = "imported but unused"

\* analyzePythonWithPyflakes: env.pyflakes[file] is "throw" or the printed
\* lines; a line is what the regular expression made of it: whether it
\* matched, the digits after the first colon and the trimmed rest.
RECURSIVE analyzePythonWithPyflakes(_, _)
analyzePythonWithPyflakes(files, env) ==
    IF files = <<>>
    THEN <<>>
    ELSE LET file == Head(files)
             out == env.pyflakes[file]
             matched == IF out.kind = "lines"
                        THEN SelectSeq(out.lines, LAMBDA l : l.match) ELSE <<>>
         IN [k \in 1..Len(matched) |->
               LET message == matched[k].message IN
               [severity |-> IF Includes(message, "undefined") \/ Includes(message, "syntax")
                             THEN "critical"
                             ELSE IF \/ Includes(message, "imported but unused")
                                     \/ Includes(message, "redefinition")
                             THEN "major"
                             ELSE "minor",
                file |-> file,
                line |-> IF matched[k].digits # 0 THEN matched[k].digits ELSE 1,
                message |-> message]]
            \o analyzePythonWithPyflakes(Tail(files), env)

\* The key under which analyzePythonFiles remembers an issue it has kept.
DedupKey(issue) == issue.file \o ":" \o ToString(issue.line) \o ":" \o issue.message

\* The loop without its seenKeys test.
Deduplicate_KeepsAll(found, seenKeys) == found

\* The loop over [...pylintIssues, ...pyflakesIssues] with its seenKeys set.
RECURSIVE Deduplicate(_, _)
Deduplicate(found, seenKeys) ==
    IF found = <<>>
    THEN <<>>
    ELSE LET key == DedupKey(Head(found)) IN
         IF key \in seenKeys
         THEN Deduplicate(Tail(found), seenKeys)
         ELSE <<Head(found)>> \o Deduplicate(Tail(found), seenKeys \cup {key})

\* analyzeFilesWithGemini of this variant: without a client every file
\* yields nothing.
analyzeFilesWithClient(files, env) ==
    IF env.ai THEN analyzeFilesWithGemini(files, env) ELSE <<>>

\* analyzePythonFiles: the provider first; the local tools when there is no
\* client or the provider found nothing.
analyzePythonFiles(files, env) ==
    LET issues == IF env.ai THEN analyzeFilesWithClient(files, env) ELSE <<>>
        geminiWorked == env.ai /\ Len(issues) > 0
    IN IF geminiWorked
       THEN issues
       ELSE issues \o Deduplicate(analyzePythonWithPylint(files, env)
                                     \o analyzePythonWithPyflakes(files, env), {})

\* Whether analyzePythonFiles calls pylint and pyflakes: geminiWorked is false.
LocalToolsRun(files, env) ==
    ~(env.ai /\ Len(analyzeFilesWithClient(files, env)) > 0)

\* One language group analyzed by this variant: the issues and whether the
\* local tools were run for it.
analyzeGroupWithFallback(language, files, env) ==
    IF language = "python"
    THEN [issues |-> analyzePythonFiles(files, env), localTools |-> LocalToolsRun(files, env)]
    ELSE [issues |-> analyzeFilesWithClient(files, env), localTools |-> FALSE]

\* One language group analyzed by analyzer.ts: analyzePythonFiles,
\* analyzeJavaScriptFiles and analyzeTypeScriptFiles all hand the files to
\* analyzeFilesWithGemini and nothing else.
analyzeGroup(language, files, env) ==
    [issues |-> analyzeFilesWithGemini(files, env), localTools |-> FALSE]

\* refactorFiles of this variant: without a client the content is returned
\* as it is.
RECURSIVE refactorFilesWithClient(_, _)
refactorFilesWithClient(files, env) ==
    IF files = <<>>
    THEN <<>>
    ELSE LET file == Head(files) IN
         (IF file \in env.unreadable
          THEN <<>>
          ELSE <<[file |-> file,
                  original |-> env.content[file],
                  refactored |-> IF ~env.ai
                                 THEN env.content[file]
                                 ELSE refactorFileWithGemini(env.refactor[file],
                                                             env.content[file])]>>)
         \o refactorFilesWithClient(Tail(files), env)

\* analyzeCode of this variant.
analyzeCodeWithFallback(requestId, zipBuffer, repoUrl, analysisMode, env) ==
    IF (~zipBuffer /\ repoUrl = Absent) \/ env.prepare = "throw"
    THEN [threw |-> TRUE]
    ELSE LET pythonIssues == IF env.pythonFiles # <<>>
                             THEN analyzePythonFiles(env.pythonFiles, env) ELSE <<>>
             jsIssues == IF env.jsFiles # <<>>
                         THEN analyzeFilesWithClient(env.jsFiles, env) ELSE <<>>
             tsIssues == IF env.tsFiles # <<>>
                         THEN analyzeFilesWithClient(env.tsFiles, env) ELSE <<>>
             combined == pythonIssues \o jsIssues \o tsIssues
             allIssues == IF analysisMode = "quick" THEN QuickFilter(combined) ELSE combined
             allFiles == env.pythonFiles \o env.jsFiles \o env.tsFiles
             languages == (IF env.pythonFiles # <<>> THEN <<"python">> ELSE <<>>)
                          \o (IF env.jsFiles # <<>> THEN <<"javascript">> ELSE <<>>)
                          \o (IF env.tsFiles # <<>> THEN <<"typescript">> ELSE <<>>)
         IN [threw |-> FALSE,
             value |->
               [kind |-> "object",
                request_id |-> requestId,
                status |-> "completed",
                summary |-> [languages |-> languages,
                             total_files_analyzed |->
                                 Len(env.pythonFiles) + Len(env.jsFiles) + Len(env.tsFiles),
                             issues_count |-> [critical |-> Count(allIssues, "critical"),
                                               major |-> Count(allIssues, "major"),
                                               minor |-> Count(allIssues, "minor")]],
                issues |-> allIssues,
                patches |-> <<>>,
                refactoredFiles |-> refactorFilesWithClient(allFiles, env)]]

\* ---------------------------------------------------------------- environment
\* What the outside world can hand to one pipeline run: the classified files
\* of the workspace and the provider's answer for each of them.
RawIssue(sev) == [severity |-> sev, line |-> Num(3), message |-> "m"]

AnalysisResponses ==
    { [kind |-> "throw"],
      [kind |-> "array", issues |-> <<RawIssue("critical"), RawIssue("minor")>>],
      [kind |-> "array", issues |-> <<RawIssue("major")>>] }

Workspaces ==
    { [pythonFiles |-> <<>>, jsFiles |-> <<>>, tsFiles |-> <<>>],
      [pythonFiles |-> <<"a.py">>, jsFiles |-> <<>>, tsFiles |-> <<>>],
      [pythonFiles |-> <<"a.py">>, jsFiles |-> <<>>, tsFiles |-> <<"c.ts">>] }

Range(seq) == {seq[k] : k \in 1..Len(seq)}
FilesOf(ws) == Range(ws.pythonFiles) \cup Range(ws.jsFiles) \cup Range(ws.tsFiles)

Envs ==
    UNION { { [prepare |-> p,
               pythonFiles |-> ws.pythonFiles, jsFiles |-> ws.jsFiles, tsFiles |-> ws.tsFiles,
               unreadable |-> {},
               content |-> [f \in FilesOf(ws) |-> "old"],
               analysis |-> a,
               refactor |-> [f \in FilesOf(ws) |-> [kind |-> "text", text |-> "new"]]]
              : a \in [FilesOf(ws) -> AnalysisResponses] }
            : ws \in Workspaces, p \in {"ok"} }
    \cup { [prepare |-> "throw", pythonFiles |-> <<>>, jsFiles |-> <<>>, tsFiles |-> <<>>,
            unreadable |-> {}, content |-> <<>>, analysis |-> <<>>, refactor |-> <<>>] }

\* Bodies of POST /api/analyze: the multipart fields and whether a file came.
AnalyzeRequests ==
    [file : BOOLEAN,
     repo_url : {Absent, "", "https://h/r.git", "not a url"},
     analysis_mode : {Absent, "quick", "standard", "deep", "bogus"}]

\* A results value an external caller can post.
ExternalResult(id) ==
    [kind |-> "object",
     request_id |-> id,
     status |-> "completed",
     summary |-> [languages |-> <<"python">>, total_files_analyzed |-> 1,
                  issues_count |-> [critical |-> 0, major |-> 0, minor |-> 1]],
     issues |-> <<[severity |-> "minor", file |-> "x.py", line |-> 1, message |-> "m"]>>,
     patches |-> <<>>,
     refactoredFiles |-> <<[file |-> "x.py", original |-> "old", refactored |-> "new"]>>]

\* Bodies of POST /api/callback.
CallbackRequests ==
    UNION { [callback_secret : {Absent, CALLBACK_SECRET, "wrong"},
             request_id : {id},
             status : {"completed", "failed", "processing"},
             results : {Undefined, Null, Scalar, FailedResult(id), ExternalResult(id)}]
            : id \in Ids \cup {UnknownId} }

\* ---------------------------------------------------------------- schemas
IsUrl(s) == s = "https://h/r.git"

\* analyzeRequestSchema.safeParse
analyzeRequestSchema(body) ==
    [success |-> /\ body.analysis_mode \in {Absent, "quick", "standard", "deep"}
                 /\ (body.repo_url = Absent \/ body.repo_url = "" \/ IsUrl(body.repo_url)),
     data |-> [analysis_mode |-> IF body.analysis_mode = Absent
                                 THEN "standard" ELSE body.analysis_mode,
               repo_url |-> body.repo_url]]

\* callbackPayloadSchema.safeParse: the three strings are required, results is any.
callbackPayloadSchema(body) ==
    [success |-> body.callback_secret # Absent /\ body.status # Absent,
     data |-> body]

\* ---------------------------------------------------------------- handlers
NoTask == [pc |-> "none"]
\* No statement of analyzeCode has run; no function is being called.
NoRun == [pc |-> "none"]
NoCall == [fn |-> "none"]
NoRetry == [pc |-> "none"]

Init ==
    /\ N8N_WEBHOOK \in BOOLEAN
    /\ jobs = <<>>
    /\ task = [id \in Ids |-> NoTask]
    /\ now = 0
    /\ last = [op |-> "none", code |-> 0, id |-> UnknownId, message |-> "",
               secret |-> Absent]
    /\ run = [id \in Ids |-> NoRun]
    /\ call = NoCall
    /\ retry = NoRetry

\* No handler is between two of its awaits that resolve in the same turn of
\* the event loop (createJob and updateJobStatus resolve at once).
Idle == \A id \in Ids : task[id].pc # "created"

Respond(op, code, id, message) ==
    last' = [op |-> op, code |-> code, id |-> id, message |-> message, secret |-> Absent]

NoSource_UrlNotNegated(file, repoUrl) == ~file /\ repoUrl # Absent

\* routes.ts line 45: neither a file nor a non-empty repo_url.
NoSource(file, repoUrl) == ~file /\ repoUrl = Absent

SecretMatches_AnyString(callback_secret) == callback_secret # Absent

\* routes.ts line 127
SecretMatches(callback_secret) == callback_secret = CALLBACK_SECRET

\* POST /api/analyze up to the await of createJob.
Analyze(body) ==
    /\ Idle
    /\ LET parsed == analyzeRequestSchema(body)
           analysisMode == parsed.data.analysis_mode
           repoUrl == IF parsed.data.repo_url # Absent /\ parsed.data.repo_url # ""
                      THEN parsed.data.repo_url ELSE Absent
           file == body.file
       IN IF ~parsed.success
          THEN /\ Respond("analyze", 400, UnknownId, "Invalid request")
               /\ UNCHANGED <<N8N_WEBHOOK, jobs, task, now, analyzerVars>>
          ELSE IF NoSource(file, repoUrl)
          THEN /\ Respond("analyze", 400, UnknownId,
                          "Either code_zip file or repo_url is required")
               /\ UNCHANGED <<N8N_WEBHOOK, jobs, task, now, analyzerVars>>
          ELSE \E id \in Ids \ DOMAIN jobs :
                 /\ jobs' = createJob(jobs, id,
                                      [analysisMode |-> analysisMode, repoUrl |-> repoUrl], now)
                 /\ task' = [task EXCEPT ![id] =
                               [pc |-> "created", file |-> file, repoUrl |-> repoUrl,
                                analysisMode |-> analysisMode]]
                 /\ Respond("analyze", 0, id, "")
                 /\ UNCHANGED <<N8N_WEBHOOK, now, analyzerVars>>

\* The handler that launches the pipeline whether or not a webhook is set.
AnalyzeStart_AlwaysInProcess(id) ==
    /\ task[id].pc = "created"
    /\ jobs' = updateJobStatus(jobs, id, "processing", Undefined, now)
    /\ task' = [task EXCEPT ![id].pc = "running"]
    /\ Respond("analyze", 200, id, "")
    /\ UNCHANGED <<N8N_WEBHOOK, now, analyzerVars>>

\* POST /api/analyze after createJob: the job becomes processing; then either
\* the webhook is called (and awaited) or the pipeline is launched and the
\* handler answers.
AnalyzeStart(id) ==
    /\ task[id].pc = "created"
    /\ jobs' = updateJobStatus(jobs, id, "processing", Undefined, now)
    /\ IF N8N_WEBHOOK
       THEN /\ task' = [task EXCEPT ![id].pc = "fetch"]
            /\ Respond("analyze", 0, id, "")
       ELSE /\ task' = [task EXCEPT ![id].pc = "running"]
            /\ Respond("analyze", 200, id, "")
    /\ UNCHANGED <<N8N_WEBHOOK, now, analyzerVars>>

\* The webhook call returns (ok or not) or throws: the handler answers.
WebhookReturn(id) ==
    /\ Idle
    /\ task[id].pc = "fetch"
    /\ \E outcome \in {"ok", "not ok", "throw"} :
         task' = [task EXCEPT ![id].pc = "delegated"]
    /\ Respond("analyze", 200, id, "")
    /\ UNCHANGED <<N8N_WEBHOOK, jobs, now, analyzerVars>>

\* The in-process pipeline: analyzeCode settles and its outcome is stored.
Pipeline(id, env) ==
    /\ Idle
    /\ task[id].pc = "running"
    /\ LET analysisResult == analyzeCode(id, task[id].file, task[id].repoUrl,
                                         task[id].analysisMode, env)
       IN jobs' = IF analysisResult.threw
                  THEN updateJobStatus(jobs, id, "failed", FailedResult(id), now)
                  ELSE updateJobStatus(jobs, id, "completed", analysisResult.value, now)
    /\ task' = [task EXCEPT ![id].pc = "done"]
    /\ Respond("pipeline", 0, id, "")
    /\ UNCHANGED <<N8N_WEBHOOK, now, analyzerVars>>

\* POST /api/callback
Callback(body) ==
    /\ Idle
    /\ LET parsed == callbackPayloadSchema(body)
           callback_secret == parsed.data.callback_secret
           request_id == parsed.data.request_id
           status == parsed.data.status
           results == parsed.data.results
           Answer(code, id, message) ==
               last' = [op |-> "callback", code |-> code, id |-> id,
                        message |-> message, secret |-> callback_secret]
       IN IF ~parsed.success
          THEN Answer(400, UnknownId, "Invalid callback payload") /\ UNCHANGED jobs
          ELSE IF ~SecretMatches(callback_secret)
          THEN Answer(401, request_id, "Invalid callback secret") /\ UNCHANGED jobs
          ELSE IF request_id \notin DOMAIN jobs
          THEN Answer(404, request_id, "Job not found") /\ UNCHANGED jobs
          ELSE LET job == jobs[request_id]
                   newStatus == IF status = "completed" THEN "completed"
                                ELSE IF status = "failed" THEN "failed"
                                ELSE job.status
               IN /\ jobs' = updateJobStatus(jobs, request_id, newStatus, results, now)
                  /\ Answer(200, request_id, "")
    /\ UNCHANGED <<N8N_WEBHOOK, task, now, analyzerVars>>

\* GET /api/status/:requestId
Status(requestId) ==
    /\ Idle
    /\ IF requestId \in DOMAIN jobs
       THEN Respond("status", 200, requestId, "")
       ELSE Respond("status", 404, requestId, "Job not found")
    /\ UNCHANGED <<N8N_WEBHOOK, jobs, task, now, analyzerVars>>

\* generateReport reads summary and issues of the result and throws without them.
ReportThrows(results) == ~IsObject(results)

\* The download guards without the status test.
DownloadResponse_NoStatusTest(kind, requestId) ==
    IF requestId \notin DOMAIN jobs
    THEN [code |-> 404, message |-> "Job not found"]
    ELSE LET job == jobs[requestId] IN
         IF ~Truthy(job.results)
         THEN [code |-> 400, message |-> "Analysis not completed yet"]
         ELSE IF kind = "markdown"
         THEN (IF ReportThrows(job.results)
               THEN [code |-> 500, message |-> "Internal server error"]
               ELSE [code |-> 200, message |-> ""])
         ELSE IF kind = "json"
         THEN [code |-> 200, message |-> ""]
         ELSE LET refactoredFiles == IF IsObject(job.results)
                                     THEN job.results.refactoredFiles ELSE <<>>
              IN IF Len(refactoredFiles) = 0
                 THEN [code |-> 400, message |-> "No refactored files available"]
                 ELSE [code |-> 200, message |-> ""]

\* GET /api/download/:requestId/markdown | json | refactored: the response.
DownloadResponse(kind, requestId) ==
    IF requestId \notin DOMAIN jobs
    THEN [code |-> 404, message |-> "Job not found"]
    ELSE LET job == jobs[requestId] IN
         IF job.status # "completed" \/ ~Truthy(job.results)
         THEN [code |-> 400, message |-> "Analysis not completed yet"]
         ELSE IF kind = "markdown"
         THEN (IF ReportThrows(job.results)
               THEN [code |-> 500, message |-> "Internal server error"]
               ELSE [code |-> 200, message |-> ""])
         ELSE IF kind = "json"
         THEN [code |-> 200, message |-> ""]
         ELSE LET refactoredFiles == IF IsObject(job.results)
                                     THEN job.results.refactoredFiles ELSE <<>>
              IN IF Len(refactoredFiles) = 0
                 THEN [code |-> 400, message |-> "No refactored files available"]
                 ELSE [code |-> 200, message |-> ""]

DownloadKinds == {"markdown", "json", "refactored"}

Download(kind, requestId) ==
    /\ Idle
    /\ LET r == DownloadResponse(kind, requestId)
       IN Respond(kind, r.code, requestId, r.message)
    /\ UNCHANGED <<N8N_WEBHOOK, jobs, task, now, analyzerVars>>

\* Time passes.
Tick ==
    /\ now < MaxClock
    /\ now' = now + 1
    /\ UNCHANGED <<N8N_WEBHOOK, jobs, task, last, analyzerVars>>

Next ==
    \/ \E body \in AnalyzeRequests : Analyze(body)
    \/ \E id \in Ids : AnalyzeStart(id)
    \/ \E id \in Ids : WebhookReturn(id)
    \/ \E id \in Ids, env \in Envs : Pipeline(id, env)
    \/ \E body \in CallbackRequests : Callback(body)
    \/ \E id \in Ids \cup {UnknownId} : Status(id)
    \/ \E kind \in DownloadKinds, id \in Ids \cup {UnknownId} : Download(kind, id)
    \/ Tick

Spec == Init /\ [][Next]_vars

\* ------------------------------------------- calls of the analyzer functions
\* What the provider (after retryWithBackoff) hands back for one file.
RawIssueAt(sev, line) == [severity |-> sev, line |-> line, message |-> "m"]

ProviderResponses ==
    { [kind |-> "throw"], [kind |-> "notext"], [kind |-> "nojson"], [kind |-> "nonarray"],
      [kind |-> "array", issues |-> <<>>],
      [kind |-> "array", issues |-> <<RawIssue("critical"), RawIssue("info")>>],
      [kind |-> "array", issues |-> <<RawIssueAt(Absent, Undefined), RawIssue("major")>>] }

RefactorResponses ==
    { [kind |-> "throw"], [kind |-> "notext"], [kind |-> "text", text |-> "new"] }

PylintOutputs ==
    { [kind |-> "throw"], [kind |-> "nojson"],
      [kind |-> "array",
       issues |-> <<[type |-> "error", line |-> Num(3), message |-> "m"],
                    [type |-> "convention", line |-> Undefined, message |-> Absent]>>],
      [kind |-> "array",
       issues |-> <<[type |-> "warning", line |-> Num(3), message |-> "m"],
                    [type |-> "warning", line |-> Num(3), message |-> "m"],
                    [type |-> "fatal", line |-> Num(0), message |-> "undefined name x"]>>] }

PyflakesOutputs ==
    { [kind |-> "throw"],
      [kind |-> "lines",
       lines |-> <<[match |-> TRUE, digits |-> 3, message |-> "m"],
                   [match |-> FALSE, digits |-> 0, message |-> ""],
                   [match |-> TRUE, digits |-> 0, message |-> "undefined name x"]>>],
      [kind |-> "lines",
       lines |-> <<[match |-> TRUE, digits |-> 3, message |-> "os imported but unused"]>>] }

Workspace(py, js, ts) == [pythonFiles |-> py, jsFiles |-> js, tsFiles |-> ts]

CallWorkspaces ==
    { Workspace(<<"a.py">>, <<>>, <<>>),
      Workspace(<<"a.py", "b.py">>, <<>>, <<>>),
      Workspace(<<>>, <<>>, <<"c.ts">>),
      Workspace(<<>>, <<>>, <<"c.ts", "e.ts">>),
      Workspace(<<"a.py">>, <<>>, <<"c.ts">>),
      Workspace(<<>>, <<"d.js">>, <<"c.ts">>) }

\* The content of a file before refactoring.
ContentOf(file) == "old " \o file

MakeEnv(ws, ai, unreadable, analysis, refactor, pylint, pyflakes) ==
    [prepare |-> "ok",
     pythonFiles |-> ws.pythonFiles, jsFiles |-> ws.jsFiles, tsFiles |-> ws.tsFiles,
     unreadable |-> unreadable,
     content |-> [f \in FilesOf(ws) |-> ContentOf(f)],
     analysis |-> analysis,
     refactor |-> refactor,
     ai |-> ai,
     pylint |-> pylint,
     pyflakes |-> pyflakes]

AllRefactored(ws) == [f \in FilesOf(ws) |-> [kind |-> "text", text |-> "new"]]
NoTool(ws) == [f \in FilesOf(ws) |-> [kind |-> "throw"]]

\* Environments for analyzeCode: every answer of the provider for every file,
\* and files that cannot be read.
AnalyzeEnvs ==
    UNION { { MakeEnv(ws, TRUE, u, a, AllRefactored(ws), NoTool(ws), NoTool(ws))
              : u \in SUBSET FilesOf(ws), a \in [FilesOf(ws) -> ProviderResponses] }
            : ws \in CallWorkspaces }

\* Environments for refactorFiles.
RefactorEnvs ==
    UNION { { MakeEnv(ws, ai, u, [f \in FilesOf(ws) |-> [kind |-> "throw"]], r,
                      NoTool(ws), NoTool(ws))
              : ai \in BOOLEAN, u \in SUBSET FilesOf(ws),
                r \in [FilesOf(ws) -> RefactorResponses] }
            : ws \in CallWorkspaces }

FallbackAnalysisResponses ==
    { [kind |-> "throw"],
      [kind |-> "array", issues |-> <<>>],
      [kind |-> "array", issues |-> <<RawIssue("critical"), RawIssue("info")>>] }

FallbackWorkspaces ==
    { Workspace(<<"a.py">>, <<>>, <<>>),
      Workspace(<<"a.py", "b.py">>, <<>>, <<>>),
      Workspace(<<"a.py">>, <<>>, <<"c.ts">>) }

\* Environments for analyzePythonFiles: with and without a client, every
\* output of the two local tools for every Python file.
FallbackEnvs ==
    UNION { { MakeEnv(ws, ai, {}, a, AllRefactored(ws),
                      [f \in FilesOf(ws) |-> IF f \in Range(ws.pythonFiles)
                                             THEN pl[f] ELSE [kind |-> "throw"]],
                      [f \in FilesOf(ws) |-> IF f \in Range(ws.pythonFiles)
                                             THEN pf[f] ELSE [kind |-> "throw"]])
              : ai \in BOOLEAN,
                a \in [FilesOf(ws) -> FallbackAnalysisResponses],
                pl \in [Range(ws.pythonFiles) -> PylintOutputs],
                pf \in [Range(ws.pythonFiles) -> PyflakesOutputs] }
            : ws \in FallbackWorkspaces }

AnalysisModes == {"quick", "standard", "deep"}

InitCalls == Init /\ ~N8N_WEBHOOK

Called(fn, analysisMode, env, result) ==
    /\ call = NoCall
    /\ call' = [fn |-> fn, analysisMode |-> analysisMode, env |-> env, result |-> result]
    /\ UNCHANGED <<N8N_WEBHOOK, jobs, task, now, last, run, retry>>

CallAnalyzeCode(analysisMode, env) ==
    Called("analyzeCode", analysisMode, env,
           analyzeCode("req-1", TRUE, Absent, analysisMode, env))

CallAnalyzeCodeWithFallback(analysisMode, env) ==
    Called("analyzeCodeWithFallback", analysisMode, env,
           analyzeCodeWithFallback("req-1", TRUE, Absent, analysisMode, env))

CallAnalyzePythonFiles(env) ==
    Called("analyzePythonFiles", Absent, env, analyzePythonFiles(env.pythonFiles, env))

CallRefactorFiles(env) ==
    Called("refactorFiles", Absent, env,
           refactorFiles(env.pythonFiles \o env.jsFiles \o env.tsFiles, env))

CallRefactorFilesWithClient(env) ==
    Called("refactorFilesWithClient", Absent, env,
           refactorFilesWithClient(env.pythonFiles \o env.jsFiles \o env.tsFiles, env))

\* The files of one language group in an environment.
GroupFiles(language, env) ==
    IF language = "python" THEN env.pythonFiles
    ELSE IF language = "javascript" THEN env.jsFiles
    ELSE env.tsFiles

\* Environments for the analysis of one group: one Python file, alone or with
\* a TypeScript file.
GroupEnvs == { e \in FallbackEnvs : Len(e.pythonFiles) = 1 }

CallAnalyzeGroup(language, env) ==
    Called("analyzeGroup", language, env,
           analyzeGroup(language, GroupFiles(language, env), env))

CallAnalyzeGroupWithFallback(language, env) ==
    Called("analyzeGroupWithFallback", language, env,
           analyzeGroupWithFallback(language, GroupFiles(language, env), env))

\* ---------------------------------------------------------------- findFiles
\* A name is the sequence of its characters; a directory entry has a kind
\* ("file", "dir", or "link" for what is neither), and a directory has its
\* entries in readdir order and may be unreadable (readdir throws).
File(name) == [name |-> name, kind |-> "file", readable |-> TRUE, entries |-> <<>>]
Link(name) == [name |-> name, kind |-> "link", readable |-> TRUE, entries |-> <<>>]
Dir(name, readable, entries) ==
    [name |-> name, kind |-> "dir", readable |-> readable, entries |-> entries]

RECURSIVE Str(_)
Str(name) == IF name = <<>> THEN "" ELSE Head(name) \o Str(Tail(name))

\* String.prototype.toLowerCase on the letters that occur.
UpperToLower == [c \in {"P", "Y", "J", "S", "T", "X", "M", "B"} |->
                   CASE c = "P" -> "p" [] c = "Y" -> "y" [] c = "J" -> "j"
                     [] c = "S" -> "s" [] c = "T" -> "t" [] c = "X" -> "x"
                     [] c = "M" -> "m" [] c = "B" -> "b"]
toLowerCase(name) ==
    [k \in 1..Len(name) |-> IF name[k] \in DOMAIN UpperToLower
                            THEN UpperToLower[name[k]] ELSE name[k]]

\* path.extname: from the last dot to the end; empty without a dot or when
\* the only dot is the first character.
extname(name) ==
    LET dots == {k \in 1..Len(name) : name[k] = "."}
        lastDot == CHOOSE k \in dots : \A j \in dots : j <= k
    IN IF dots = {} \/ lastDot = 1 THEN <<>> ELSE SubSeq(name, lastDot, Len(name))

\* The extension compared as it is spelled.
Extension_AsSpelled(name) == extname(name)

\* path.extname(entry.name).toLowerCase()
Extension(name) == toLowerCase(extname(name))

SkippedNames ==
    { <<"n","o","d","e","_","m","o","d","u","l","e","s">>,
      <<"_","_","p","y","c","a","c","h","e","_","_">>,
      <<"v","e","n","v">>,
      <<".","g","i","t">> }

\* The entries the loop passes over.
Skipped(name) == (name # <<>> /\ name[1] = ".") \/ name \in SkippedNames

PythonExtensions == { <<".","p","y">> }
JsExtensions == { <<".","j","s">>, <<".","j","s","x">>, <<".","m","j","s">> }
TsExtensions == { <<".","t","s">>, <<".","t","s","x">> }

\* findFiles: walk(currentDir) with the paths relative to the workspace.
RECURSIVE walk(_, _, _)
RECURSIVE walkEntries(_, _, _)
walk(currentDir, prefix, extensions) ==
    IF ~currentDir.readable
    THEN <<>>
    ELSE walkEntries(currentDir.entries, prefix, extensions)

walkEntries(entries, prefix, extensions) ==
    IF entries = <<>>
    THEN <<>>
    ELSE LET entry == Head(entries)
             fullPath == prefix \o Str(entry.name)
         IN (IF Skipped(entry.name) THEN <<>>
             ELSE IF entry.kind = "dir" THEN walk(entry, fullPath \o "/", extensions)
             ELSE IF entry.kind = "file" /\ Extension(entry.name) \in extensions
                  THEN <<fullPath>>
             ELSE <<>>)
            \o walkEntries(Tail(entries), prefix, extensions)

findFiles(dir, extensions) == walk(dir, "", extensions)

\* The three findFiles calls of analyzeCode.
Classify(tree) ==
    Workspace(findFiles(tree, PythonExtensions),
              findFiles(tree, JsExtensions),
              findFiles(tree, TsExtensions))

\* The entries workspaces are built from.
SrcEntries ==
    << File(<<"d",".","j","s","x">>),
       File(<<"c",".","T","S">>),
       Dir(<<"v","e","n","v">>, TRUE, <<File(<<"v",".","p","y">>)>>),
       Dir(<<"l","i","b",".","j","s">>, TRUE, <<File(<<"e",".","m","j","s">>)>>) >>

RootEntries(srcReadable) ==
    << File(<<"a",".","p","y">>),
       File(<<"B",".","P","Y">>),
       File(<<".","h",".","p","y">>),
       File(<<"n",".","t","x","t">>),
       Link(<<"l",".","p","y">>),
       Dir(<<"s","r","c">>, srcReadable, SrcEntries),
       Dir(<<"n","o","d","e","_","m","o","d","u","l","e","s">>, TRUE,
           <<File(<<"m",".","j","s">>)>>),
       Dir(<<".","g","i","t">>, TRUE, <<File(<<"g",".","p","y">>)>>),
       Dir(<<"_","_","p","y","c","a","c","h","e","_","_">>, TRUE,
           <<File(<<"p",".","t","s","x">>)>>) >>

RECURSIVE PickFrom(_, _, _)
PickFrom(pool, chosen, k) ==
    IF k > Len(pool)
    THEN <<>>
    ELSE (IF k \in chosen THEN <<pool[k]>> ELSE <<>>) \o PickFrom(pool, chosen, k + 1)

Trees ==
    { Dir(<<>>, rootReadable, PickFrom(RootEntries(srcReadable), chosen, 1)) :
        rootReadable \in BOOLEAN, srcReadable \in BOOLEAN,
        chosen \in SUBSET (1..Len(RootEntries(TRUE))) }

\* The environment of analyzeCode on an extracted tree: the provider reports
\* one issue for every file it is asked about and rewrites every file.
TreeEnv(tree) ==
    LET ws == Classify(tree)
    IN [tree |-> tree] @@
       MakeEnv(ws, TRUE, {},
               [f \in FilesOf(ws) |-> [kind |-> "array", issues |-> <<RawIssue("major")>>]],
               AllRefactored(ws), NoTool(ws), NoTool(ws))

CallAnalyzeTree(tree) ==
    Called("analyzeCode", "standard", TreeEnv(tree),
           analyzeCode("req-1", TRUE, Absent, "standard", TreeEnv(tree)))

\* analyzeCode called once on one of the trees.
NextClassify == \E tree \in Trees : CallAnalyzeTree(tree)

SpecClassify == InitCalls /\ [][NextClassify]_vars

\* Environments in which the provider and pylint report line numbers of every
\* kind for the one file a.py: positive, zero, negative, missing.
ReportedLines == {Num(7), Num(0), Num(-2), Undefined}

LineEnvs ==
    LET ws == Workspace(<<"a.py">>, <<>>, <<>>)
        answers == {[kind |-> "throw"]}
                   \cup {[kind |-> "array", issues |-> <<RawIssueAt("critical", line)>>]
                          : line \in ReportedLines}
        outputs == {[kind |-> "throw"]}
                   \cup {[kind |-> "array",
                          issues |-> <<[type |-> "error", line |-> line, message |-> "m"]>>]
                          : line \in ReportedLines}
    IN { MakeEnv(ws, ai, {}, [f \in FilesOf(ws) |-> a], AllRefactored(ws),
                 [f \in FilesOf(ws) |-> pl],
                 [f \in FilesOf(ws) |->
                    [kind |-> "lines",
                     lines |-> <<[match |-> TRUE, digits |-> 0, message |-> "w"]>>]])
         : ai \in BOOLEAN, a \in answers, pl \in outputs }

NextLines ==
    \/ \E analysisMode \in AnalysisModes, env \in {e \in LineEnvs : e.ai} :
          CallAnalyzeCode(analysisMode, env)
    \/ \E analysisMode \in AnalysisModes, env \in LineEnvs :
          CallAnalyzeCodeWithFallback(analysisMode, env)

SpecLines == InitCalls /\ [][NextLines]_vars

\* Environments for the deduplication: two Python files, one of them with
\* colons in its name, no provider issues, and tool reports whose messages
\* may contain colons.
ColonWorkspace == Workspace(<<"a.py", "a.py:1:b.py">>, <<>>, <<>>)

ColonPylintOutputs ==
    {[kind |-> "throw"]}
    \cup {[kind |-> "array",
           issues |-> <<[type |-> "warning", line |-> Num(line), message |-> message]>>]
           : line \in {1, 2}, message \in {"m", "b.py:2:m"}}

ColonPyflakesOutputs ==
    {[kind |-> "throw"]}
    \cup {[kind |-> "lines",
           lines |-> <<[match |-> TRUE, digits |-> digits, message |-> "m"]>>]
           : digits \in {1, 2}}

ColonEnvs ==
    { MakeEnv(ColonWorkspace, ai, {},
              [f \in FilesOf(ColonWorkspace) |-> [kind |-> "array", issues |-> <<>>]],
              AllRefactored(ColonWorkspace), pl, pf)
      : ai \in BOOLEAN,
        pl \in [FilesOf(ColonWorkspace) -> ColonPylintOutputs],
        pf \in [FilesOf(ColonWorkspace) -> ColonPyflakesOutputs] }

NextDedup == \E env \in ColonEnvs : CallAnalyzePythonFiles(env)

SpecDedup == InitCalls /\ [][NextDedup]_vars

NextCalls ==
    \/ \E language \in {"python", "typescript"}, env \in {e \in GroupEnvs : e.ai} :
          CallAnalyzeGroup(language, env)
    \/ \E language \in {"python", "typescript"}, env \in GroupEnvs :
          CallAnalyzeGroupWithFallback(language, env)
    \/ \E analysisMode \in AnalysisModes, env \in AnalyzeEnvs :
          CallAnalyzeCode(analysisMode, env)
    \/ \E analysisMode \in AnalysisModes, env \in FallbackEnvs :
          CallAnalyzeCodeWithFallback(analysisMode, env)
    \/ \E env \in FallbackEnvs : CallAnalyzePythonFiles(env)
    \/ \E env \in {e \in RefactorEnvs : e.ai} : CallRefactorFiles(env)
    \/ \E env \in RefactorEnvs : CallRefactorFilesWithClient(env)

SpecCalls == InitCalls /\ [][NextCalls]_vars

\* ------------------------------------------ analyzeCode, statement by statement
\* One run of analyzeCode per submission, followed through its awaits: the
\* temporary directory, the preparation of the workspace, the classification
\* of the files, the analysis and the refactoring file by file, the finally
\* block, and the pipeline's then/catch in the handler.
\*   tempDir: "none" (not created), "exists", "removed"
\*   rmCalls: how often fs.rm was called on it
\*   pending: what the finally block resumes, "return" or "throw"
StartedRun ==
    [pc |-> "prepare", tempDir |-> "exists", rmCalls |-> 0, pending |-> "return",
     pythonFiles |-> <<>>, jsFiles |-> <<>>, tsFiles |-> <<>>,
     queue |-> <<>>, issues |-> <<>>, refactoredFiles |-> <<>>]

\* The result object analyzeCode returns at the end of a run.
RunResult(id) ==
    LET r == run[id]
        allIssues == r.issues
        languages == (IF r.pythonFiles # <<>> THEN <<"python">> ELSE <<>>)
                     \o (IF r.jsFiles # <<>> THEN <<"javascript">> ELSE <<>>)
                     \o (IF r.tsFiles # <<>> THEN <<"typescript">> ELSE <<>>)
    IN [kind |-> "object",
        request_id |-> id,
        status |-> "completed",
        summary |-> [languages |-> languages,
                     total_files_analyzed |->
                         Len(r.pythonFiles) + Len(r.jsFiles) + Len(r.tsFiles),
                     issues_count |-> [critical |-> Count(allIssues, "critical"),
                                       major |-> Count(allIssues, "major"),
                                       minor |-> Count(allIssues, "minor")]],
        issues |-> allIssues,
        patches |-> <<>>,
        refactoredFiles |-> r.refactoredFiles]

RunStep(id, r) ==
    /\ run' = [run EXCEPT ![id] = r]
    /\ UNCHANGED <<N8N_WEBHOOK, jobs, task, now, last, call, retry>>

\* An exception inside the try block: control goes to the finally block.
Thrown(r) == [r EXCEPT !.pc = "finally", !.pending = "throw"]

\* fs.mkdtemp, before the try block.
RunMkdtemp(id, ok) ==
    /\ task[id].pc = "running"
    /\ run[id].pc = "none"
    /\ RunStep(id, IF ok THEN StartedRun ELSE [StartedRun EXCEPT !.pc = "threw",
                                                               !.tempDir = "none",
                                                               !.pending = "throw"])

\* extractZip, cloneRepo or the throw for a call without code.
RunPrepare(id, ok) ==
    /\ run[id].pc = "prepare"
    /\ LET hasCode == task[id].file \/ task[id].repoUrl # Absent
       IN RunStep(id, IF hasCode /\ ok
                      THEN [run[id] EXCEPT !.pc = "classify"]
                      ELSE Thrown(run[id]))

\* The three findFiles calls.
RunClassify(id, ws, ok) ==
    /\ run[id].pc = "classify"
    /\ RunStep(id, IF ok
                   THEN [run[id] EXCEPT !.pc = "analyze",
                                        !.pythonFiles = ws.pythonFiles,
                                        !.jsFiles = ws.jsFiles,
                                        !.tsFiles = ws.tsFiles,
                                        !.queue = ws.pythonFiles \o ws.jsFiles \o ws.tsFiles]
                   ELSE Thrown(run[id]))

\* One turn of the loop of analyzeFilesWithGemini.
RunAnalyzeFile(id, readable, response) ==
    /\ run[id].pc = "analyze"
    /\ run[id].queue # <<>>
    /\ LET file == Head(run[id].queue)
       IN RunStep(id, [run[id] EXCEPT
                         !.queue = Tail(@),
                         !.issues = @ \o (IF readable
                                          THEN analyzeFileWithGemini(response, file)
                                          ELSE <<>>)])

\* The filter and the refactoring started while files are still waiting for
\* their analysis.
RunFilter_BeforeAnalysisEnds(id) ==
    /\ run[id].pc = "analyze"
    /\ RunStep(id, [run[id] EXCEPT
                      !.pc = "refactor",
                      !.issues = IF task[id].analysisMode = "quick" THEN QuickFilter(@) ELSE @,
                      !.queue = run[id].pythonFiles \o run[id].jsFiles \o run[id].tsFiles])

\* After the last group: the quick filter, the counts, allFiles.
RunFilter(id) ==
    /\ run[id].pc = "analyze"
    /\ run[id].queue = <<>>
    /\ RunStep(id, [run[id] EXCEPT
                      !.pc = "refactor",
                      !.issues = IF task[id].analysisMode = "quick" THEN QuickFilter(@) ELSE @,
                      !.queue = run[id].pythonFiles \o run[id].jsFiles \o run[id].tsFiles])

\* One turn of the loop of refactorFiles.
RunRefactorFile(id, readable, response) ==
    /\ run[id].pc = "refactor"
    /\ run[id].queue # <<>>
    /\ LET file == Head(run[id].queue)
       IN RunStep(id, [run[id] EXCEPT
                         !.queue = Tail(@),
                         !.refactoredFiles =
                             @ \o (IF readable
                                   THEN <<[file |-> file,
                                           original |-> ContentOf(file),
                                           refactored |->
                                               refactorFileWithGemini(response,
                                                                      ContentOf(file))]>>
                                   ELSE <<>>)])

\* The return statement: control goes to the finally block.
RunReturn(id) ==
    /\ run[id].pc = "refactor"
    /\ run[id].queue = <<>>
    /\ RunStep(id, [run[id] EXCEPT !.pc = "finally", !.pending = "return"])

\* A failed preparation that leaves analyzeCode without the finally block.
RunFinally_OnlyOnReturn(id, ok) ==
    /\ run[id].pc = "finally"
    /\ RunStep(id, IF run[id].pending = "return"
                   THEN [run[id] EXCEPT !.pc = "returned",
                                        !.rmCalls = @ + 1,
                                        !.tempDir = IF ok THEN "removed" ELSE @]
                   ELSE [run[id] EXCEPT !.pc = "threw"])

\* The finally block: fs.rm, whose own failure is caught; then analyzeCode
\* returns or rethrows.
RunFinally(id, ok) ==
    /\ run[id].pc = "finally"
    /\ RunStep(id, [run[id] EXCEPT
                      !.pc = IF run[id].pending = "return" THEN "returned" ELSE "threw",
                      !.rmCalls = @ + 1,
                      !.tempDir = IF ok THEN "removed" ELSE @])

\* The continuation without the catch block's failed result.
PipelineSettle_NoCatch(id) ==
    /\ task[id].pc = "running"
    /\ run[id].pc \in {"returned", "threw"}
    /\ jobs' = updateJobStatus(jobs, id, "completed", RunResult(id), now)
    /\ task' = [task EXCEPT ![id].pc = "done"]
    /\ Respond("pipeline", 0, id, "")
    /\ UNCHANGED <<N8N_WEBHOOK, now, analyzerVars>>

\* The continuation with a catch block that stores nothing.
PipelineSettle_DropsFailure(id) ==
    /\ task[id].pc = "running"
    /\ run[id].pc \in {"returned", "threw"}
    /\ jobs' = IF run[id].pc = "threw"
               THEN jobs
               ELSE updateJobStatus(jobs, id, "completed", RunResult(id), now)
    /\ task' = [task EXCEPT ![id].pc = "done"]
    /\ Respond("pipeline", 0, id, "")
    /\ UNCHANGED <<N8N_WEBHOOK, now, analyzerVars>>

\* The pipeline's continuation in the handler: the result is stored as
\* completed, or the catch block stores the failed result.
PipelineSettle(id) ==
    /\ task[id].pc = "running"
    /\ run[id].pc \in {"returned", "threw"}
    /\ jobs' = IF run[id].pc = "threw"
               THEN updateJobStatus(jobs, id, "failed", FailedResult(id), now)
               ELSE updateJobStatus(jobs, id, "completed", RunResult(id), now)
    /\ task' = [task EXCEPT ![id].pc = "done"]
    /\ Respond("pipeline", 0, id, "")
    /\ UNCHANGED <<N8N_WEBHOOK, now, analyzerVars>>

InitPipeline == Init /\ ~N8N_WEBHOOK

NextPipeline ==
    \/ \E body \in AnalyzeRequests : Analyze(body)
    \/ \E id \in Ids : AnalyzeStart(id)
    \/ \E id \in Ids, ok \in BOOLEAN : RunMkdtemp(id, ok)
    \/ \E id \in Ids, ok \in BOOLEAN : RunPrepare(id, ok)
    \/ \E id \in Ids, ws \in Workspaces, ok \in BOOLEAN : RunClassify(id, ws, ok)
    \/ \E id \in Ids, readable \in BOOLEAN, response \in AnalysisResponses :
          RunAnalyzeFile(id, readable, response)
    \/ \E id \in Ids : RunFilter(id)
    \/ \E id \in Ids, readable \in BOOLEAN, response \in RefactorResponses :
          RunRefactorFile(id, readable, response)
    \/ \E id \in Ids : RunReturn(id)
    \/ \E id \in Ids, ok \in BOOLEAN : RunFinally(id, ok)
    \/ \E id \in Ids : PipelineSettle(id)

SpecPipeline == InitPipeline /\ [][NextPipeline]_vars

\* The handler's then/catch runs as soon as analyzeCode has settled.
SpecPipelineFair == SpecPipeline /\ \A id \in Ids : WF_vars(PipelineSettle(id))

\* The pipeline is launched in the same turn as the handler creates the job,
\* every awaited call of analyzeCode settles, and the event loop runs every
\* continuation that is ready.
SpecPipelineLive ==
    /\ SpecPipeline
    /\ \A id \in Ids :
          /\ WF_vars(AnalyzeStart(id))
          /\ WF_vars(\E ok \in BOOLEAN : RunMkdtemp(id, ok))
          /\ WF_vars(\E ok \in BOOLEAN : RunPrepare(id, ok))
          /\ WF_vars(\E ws \in Workspaces, ok \in BOOLEAN : RunClassify(id, ws, ok))
          /\ WF_vars(\E readable \in BOOLEAN, response \in AnalysisResponses :
                        RunAnalyzeFile(id, readable, response))
          /\ WF_vars(RunFilter(id))
          /\ WF_vars(\E readable \in BOOLEAN, response \in RefactorResponses :
                        RunRefactorFile(id, readable, response))
          /\ WF_vars(RunReturn(id))
          /\ WF_vars(\E ok \in BOOLEAN : RunFinally(id, ok))
          /\ WF_vars(PipelineSettle(id))

\* ---------------------------------------------------------- retryWithBackoff
\* One call of retryWithBackoff followed through its loop.
\*   pc: "call" (fn is being awaited), "sleep" (the backoff timer is awaited),
\*       "returned", "threw"
\*   i: the loop index; calls: how often fn was called; waits: the delays
\*   slept, in ms; errors: the status of each failed attempt; value: what
\*   was returned; thrown: the status of the error thrown
DefaultMaxRetries == 3
DefaultBaseDelay == 1000
\* The arguments both per-file provider calls pass.
CallSiteMaxRetries == 3
CallSiteBaseDelay == 2000
\* The status of the provider's rate-limit error.
RateLimited == 429

ProviderCallSites == {"analyzeFileWithGemini", "refactorFileWithGemini"}

\* What one call of fn does: it returns a value or throws an error that has
\* this status (0: an error without a status).
AttemptOutcomes ==
    { [kind |-> "value", value |-> v] : v \in {"response 1", "response 2"} }
    \cup { [kind |-> "error", status |-> st] : st \in {RateLimited, 500, 503, 0} }

\* retryWithBackoff is entered: the loop starts, or ends at once when
\* maxRetries is 0 and lastError, still undefined, is thrown.
RetryBegin(site, maxRetries, baseDelay) ==
    /\ retry = NoRetry
    /\ retry' = [pc |-> IF 0 < maxRetries THEN "call" ELSE "threw",
                 site |-> site, maxRetries |-> maxRetries, baseDelay |-> baseDelay,
                 i |-> 0, calls |-> 0, waits |-> <<>>, errors |-> <<>>,
                 value |-> Absent, thrown |-> 0]
    /\ UNCHANGED <<N8N_WEBHOOK, jobs, task, now, last, run, call>>

\* The loop that also sleeps after its last attempt.
RetryAttempt_SleepsAfterLast(outcome) ==
    /\ retry.pc = "call"
    /\ retry' =
         IF outcome.kind = "value"
         THEN [retry EXCEPT !.pc = "returned", !.calls = @ + 1, !.value = outcome.value]
         ELSE IF outcome.status = RateLimited
         THEN [retry EXCEPT !.pc = IF retry.i < retry.maxRetries - 1 THEN "sleep" ELSE "threw",
                            !.calls = @ + 1,
                            !.errors = Append(@, outcome.status),
                            !.thrown = outcome.status,
                            !.waits = Append(@, retry.baseDelay * 2^(retry.i))]
         ELSE [retry EXCEPT !.pc = "threw", !.calls = @ + 1,
                            !.errors = Append(@, outcome.status),
                            !.thrown = outcome.status]
    /\ UNCHANGED <<N8N_WEBHOOK, jobs, task, now, last, run, call>>

\* The loop that backs off after every error.
RetryAttempt_AnyError(outcome) ==
    /\ retry.pc = "call"
    /\ retry' =
         IF outcome.kind = "value"
         THEN [retry EXCEPT !.pc = "returned", !.calls = @ + 1, !.value = outcome.value]
         ELSE IF retry.i < retry.maxRetries - 1
         THEN [retry EXCEPT !.pc = "sleep", !.calls = @ + 1,
                            !.errors = Append(@, outcome.status),
                            !.waits = Append(@, retry.baseDelay * 2^(retry.i))]
         ELSE [retry EXCEPT !.pc = "threw", !.calls = @ + 1,
                            !.errors = Append(@, outcome.status),
                            !.thrown = outcome.status]
    /\ UNCHANGED <<N8N_WEBHOOK, jobs, task, now, last, run, call>>

\* One turn of the loop: fn settles. Its value is returned; a rate-limit
\* error before the last turn starts the backoff timer; any other error, and
\* the error of the last turn, is thrown.
RetryAttempt(outcome) ==
    /\ retry.pc = "call"
    /\ retry' =
         IF outcome.kind = "value"
         THEN [retry EXCEPT !.pc = "returned", !.calls = @ + 1, !.value = outcome.value]
         ELSE IF outcome.status = RateLimited /\ retry.i < retry.maxRetries - 1
         THEN [retry EXCEPT !.pc = "sleep", !.calls = @ + 1,
                            !.errors = Append(@, outcome.status),
                            !.waits = Append(@, retry.baseDelay * 2^(retry.i))]
         ELSE [retry EXCEPT !.pc = "threw", !.calls = @ + 1,
                            !.errors = Append(@, outcome.status),
                            !.thrown = outcome.status]
    /\ UNCHANGED <<N8N_WEBHOOK, jobs, task, now, last, run, call>>

\* The backoff timer fires: the next turn of the loop.
RetryWake ==
    /\ retry.pc = "sleep"
    /\ retry' = [retry EXCEPT !.pc = "call", !.i = @ + 1]
    /\ UNCHANGED <<N8N_WEBHOOK, jobs, task, now, last, run, call>>

InitRetry == Init /\ ~N8N_WEBHOOK

NextRetry ==
    \/ \E site \in ProviderCallSites :
          RetryBegin(site, CallSiteMaxRetries, CallSiteBaseDelay)
    \/ \E maxRetries \in 0..MaxRetriesArg, baseDelay \in {DefaultBaseDelay, CallSiteBaseDelay} :
          RetryBegin("direct", maxRetries, baseDelay)
    \/ \E outcome \in AttemptOutcomes : RetryAttempt(outcome)
    \/ RetryWake

SpecRetry == InitRetry /\ [][NextRetry]_vars

\* ------------------------------------------------ two pipelines side by side
\* Two submissions have been accepted in in-process mode, one quick with an
\* archive and one standard with a repository, and their pipelines run side
\* by side; every workspace holds one file of each language.
PipelineIds == {"req-1", "req-2"}

ThreeLanguages == Workspace(<<"a.py">>, <<"d.js">>, <<"c.ts">>)

AcceptedTask(id) ==
    [pc |-> "running",
     file |-> (id = "req-1"),
     repoUrl |-> IF id = "req-1" THEN Absent ELSE "https://h/r.git",
     analysisMode |-> IF id = "req-1" THEN "quick" ELSE "standard"]

RECURSIVE AcceptedJobs(_)
AcceptedJobs(ids) ==
    IF ids = {}
    THEN <<>>
    ELSE LET id == CHOOSE x \in ids : TRUE
             t == AcceptedTask(id)
         IN updateJobStatus(createJob(AcceptedJobs(ids \ {id}), id,
                                      [analysisMode |-> t.analysisMode,
                                       repoUrl |-> t.repoUrl], 0),
                            id, "processing", Undefined, 0)

InitTwoPipelines ==
    /\ N8N_WEBHOOK = FALSE
    /\ jobs = AcceptedJobs(PipelineIds)
    /\ task = [id \in PipelineIds |-> AcceptedTask(id)]
    /\ now = 0
    /\ last = [op |-> "analyze", code |-> 200, id |-> "req-2", message |-> "",
               secret |-> Absent]
    /\ run = [id \in PipelineIds |-> NoRun]
    /\ call = NoCall
    /\ retry = NoRetry

NextTwoPipelines ==
    \/ \E id \in PipelineIds : RunMkdtemp(id, TRUE)
    \/ \E id \in PipelineIds, ok \in BOOLEAN : RunPrepare(id, ok)
    \/ \E id \in PipelineIds : RunClassify(id, ThreeLanguages, TRUE)
    \/ \E id \in PipelineIds :
          RunAnalyzeFile(id, TRUE, [kind |-> "array",
                                    issues |-> <<RawIssue("critical"), RawIssue("minor")>>])
    \/ \E id \in PipelineIds : RunFilter(id)
    \/ \E id \in PipelineIds : RunRefactorFile(id, TRUE, [kind |-> "text", text |-> "new"])
    \/ \E id \in PipelineIds : RunReturn(id)
    \/ \E id \in PipelineIds : RunFinally(id, TRUE)
    \/ \E id \in PipelineIds : PipelineSettle(id)

SpecTwoPipelines == InitTwoPipelines /\ [][NextTwoPipelines]_vars

\* ------------------------------------------------------------- MemStorage
\* The store called directly, in any order. randomUUID().slice(0, 8) is a
\* draw from the id space, here two ids, whether or not the id is in use.
StoreIds == {"req-1", "req-2"}

StoreData ==
    { [analysisMode |-> "quick", repoUrl |-> Absent],
      [analysisMode |-> "deep", repoUrl |-> "https://h/r.git"] }

\* What getJob resolves to.
getJob(store, id) == IF id \in DOMAIN store THEN store[id] ELSE Undefined

StoreCalled(fn, id, returned) ==
    /\ call' = [fn |-> fn, id |-> id, returned |-> returned]
    /\ UNCHANGED <<N8N_WEBHOOK, task, now, last, run, retry>>

StoreCreateJob(id, data) ==
    /\ jobs' = createJob(jobs, id, data, now)
    /\ StoreCalled("createJob", id, jobs'[id])

StoreGetJob(id) ==
    /\ jobs' = jobs
    /\ StoreCalled("getJob", id, getJob(jobs, id))

StoreUpdateJobStatus(id, status, results) ==
    /\ jobs' = updateJobStatus(jobs, id, status, results, now)
    /\ StoreCalled("updateJobStatus", id, getJob(jobs', id))

NextStore ==
    \/ \E id \in StoreIds, data \in StoreData : StoreCreateJob(id, data)
    \/ \E id \in StoreIds \cup {UnknownId} : StoreGetJob(id)
    \/ \E id \in StoreIds \cup {UnknownId}, status \in {"processing", "completed"},
          results \in {Undefined, Scalar} : StoreUpdateJobStatus(id, status, results)
    \/ Tick

SpecStore == InitCalls /\ [][NextStore]_vars

\* ================================================================ claims
Rank(status) ==
    IF status = "pending" THEN 0 ELSE IF status = "processing" THEN 1 ELSE 2

\* C1: a job's status only moves forward along pending -> processing ->
\* {completed | failed}; it never returns to an earlier status, and once it is
\* completed or failed it never changes again.
C1_StatusMonotonic ==
    [][\A id \in DOMAIN jobs :
          /\ id \in DOMAIN jobs'
          /\ Rank(jobs'[id].status) >= Rank(jobs[id].status)
          /\ (Rank(jobs[id].status) = 2 => jobs'[id].status = jobs[id].status)]_vars

\* C2: once a job's results field holds a result object, no later operation
\* leaves the job with results absent or null.
C2_ResultsNeverCleared ==
    [][\A id \in DOMAIN jobs :
          IsObject(jobs[id].results) =>
              /\ id \in DOMAIN jobs'
              /\ jobs'[id].results.kind \notin {"undefined", "null"}]_vars

\* C3: a job whose status is pending or processing has no results.
C3_NoResultsBeforeTerminal ==
    \A id \in DOMAIN jobs :
        jobs[id].status \in {"pending", "processing"} => jobs[id].results = Undefined

\* C4: every failed job has a results object with no issues, no refactored
\* files and issue counts that sum to zero.
C4_FailedResultEmpty ==
    \A id \in DOMAIN jobs :
        jobs[id].status = "failed" =>
            /\ IsObject(jobs[id].results)
            /\ jobs[id].results.issues = <<>>
            /\ jobs[id].results.refactoredFiles = <<>>
            /\ LET c == jobs[id].results.summary.issues_count
               IN c.critical + c.major + c.minor = 0

\* C5: updatedAt equals createdAt at creation and strictly increases at each
\* status transition.
C5_UpdatedAtStrictlyIncreases ==
    [][\A id \in DOMAIN jobs' :
          IF id \notin DOMAIN jobs
          THEN jobs'[id].updatedAt = jobs'[id].createdAt
          ELSE jobs'[id].status # jobs[id].status =>
                   /\ jobs'[id].updatedAt > jobs[id].updatedAt
                   /\ jobs'[id].updatedAt > jobs[id].createdAt]_vars

\* C6: no submission that supplies both a code_zip file and a repo_url is
\* accepted: none gets a job record.
C6_BothSourcesRejected ==
    \A id \in Ids :
        task[id].pc # "none" => ~(task[id].file /\ task[id].repoUrl # Absent)

InvalidSubmissions ==
    { body \in AnalyzeRequests :
        \/ (~body.file /\ body.repo_url \in {Absent, ""})
        \/ body.analysis_mode \notin {Absent, "quick", "standard", "deep"} }

\* A step of POST /api/analyze that answers anything but 400, or that changes
\* the job store or the tasks.
AnalyzeNotRefused ==
    last'.op = "analyze" /\ ~(last'.code = 400 /\ jobs' = jobs /\ task' = task)

\* C7: a submission with neither a file nor a non-empty repo_url, or with an
\* analysis_mode outside {quick, standard, deep}, is answered 400 and creates
\* no job and launches nothing: no step that handles such a submission is a
\* step that is not a refusal.
C7_InvalidSubmissionRejected ==
    [][AnalyzeNotRefused => \A body \in InvalidSubmissions : ~Analyze(body)]_vars

\* A submission without any source was just refused while a job exists.
C7_Witness ==
    /\ last.op = "analyze"
    /\ last.code = 400
    /\ last.message = "Either code_zip file or repo_url is required"
    /\ jobs # <<>>

C9_DownloadRefusals ==
    /\ [](last.op \in DownloadKinds =>
            /\ last.id \notin DOMAIN jobs => last.code = 404
            /\ last.id \in DOMAIN jobs =>
                 LET job == jobs[last.id] IN
                 /\ (job.status # "completed" \/ job.results \in {Undefined, Null})
                        => last.code = 400
                 /\ (/\ last.op = "refactored"
                     /\ job.status = "completed"
                     /\ IsObject(job.results)
                     /\ job.results.refactoredFiles = <<>>) => last.code = 400)
    /\ [][last'.op \in DownloadKinds => jobs' = jobs]_vars

\* The refactored download of a completed job without refactored files was
\* just refused.
C9_Witness ==
    /\ last.op = "refactored"
    /\ last.code = 400
    /\ last.id \in DOMAIN jobs
    /\ jobs[last.id].status = "completed"
    /\ IsObject(jobs[last.id].results)
    /\ jobs[last.id].results.refactoredFiles = <<>>

NoMinor(results) ==
    /\ \A k \in 1..Len(results.issues) : results.issues[k].severity # "minor"
    /\ results.summary.issues_count.minor = 0

AnalyzeCodeFns == {"analyzeCode", "analyzeCodeWithFallback"}

\* The number of issues of one severity, counted by position.
NumberOf(issues, sev) == Cardinality({k \in 1..Len(issues) : issues[k].severity = sev})

\* C11: in every result analyzeCode returns (either variant, every mode, every
\* output of the provider and of the local tools, reported severities that
\* are missing or unknown included) the three counts of summary.issues_count
\* add up to the length of issues and each count is the number of issues of
\* that severity.
C11_CountsMatchIssues ==
    (call.fn \in AnalyzeCodeFns /\ ~call.result.threw) =>
        LET result == call.result.value
            issues_count == result.summary.issues_count
        IN /\ issues_count.critical + issues_count.major + issues_count.minor
                  = Len(result.issues)
           /\ \A sev \in Severities : issues_count[sev] = NumberOf(result.issues, sev)

\* The provider reported a severity outside the three for a readable file and
\* the result counts that issue as minor.
C11_Witness ==
    /\ call.fn = "analyzeCode"
    /\ ~call.result.threw
    /\ call.analysisMode = "standard"
    /\ \E f \in FilesOf(call.env) \ call.env.unreadable :
          /\ call.env.analysis[f].kind = "array"
          /\ \E k \in 1..Len(call.env.analysis[f].issues) :
                call.env.analysis[f].issues[k].severity \notin Severities
    /\ call.result.value.summary.issues_count.minor >= 1
    /\ Len(call.result.value.issues) >= 2

\* ---------------------------------------------------------------- C12
\* The provider's call for this file threw, or its answer had no text, was no
\* JSON or was no array.
AnalysisFailed(env, f) == env.analysis[f].kind \in {"throw", "notext", "nojson", "nonarray"}

\* The provider found something in a readable Python file.
GeminiWorked(env) ==
    \E g \in Range(env.pythonFiles) \ env.unreadable :
        env.analysis[g].kind = "array" /\ env.analysis[g].issues # <<>>

\* The readable files of the call whose issues come from the provider.
AnalyzedByProvider ==
    { f \in FilesOf(call.env) \ call.env.unreadable :
        \/ call.fn = "analyzeCode"
        \/ /\ call.fn = "analyzeCodeWithFallback"
           /\ call.env.ai
           /\ (f \in Range(call.env.pythonFiles) => GeminiWorked(call.env)) }

\* How many of the issues the provider reported for a file the mode keeps.
KeptIn(analysisMode, raw) ==
    IF analysisMode = "quick"
    THEN Cardinality({k \in 1..Len(raw) : raw[k].severity \in {"critical", "major"}})
    ELSE Len(raw)

IssuesOfFile(result, f) == SelectSeq(result.issues, LAMBDA i : i.file = f)

\* C12: a provider or parse error for a file never fails the run: analyzeCode
\* returns a completed result whatever subset of the files failed, a failed
\* file has no issue in the result, every other file analyzed by the provider
\* has all the issues the provider reported for it (those the mode keeps), and
\* a TypeScript-only submission whose every call failed has issues = <<>>.
C12_ProviderErrorsNeverFail ==
    call.fn \in AnalyzeCodeFns =>
        /\ ~call.result.threw
        /\ call.result.value.status = "completed"
        /\ \A f \in AnalyzedByProvider :
              IF AnalysisFailed(call.env, f)
              THEN IssuesOfFile(call.result.value, f) = <<>>
              ELSE Len(IssuesOfFile(call.result.value, f))
                       = KeptIn(call.analysisMode, call.env.analysis[f].issues)
        /\ (/\ call.env.pythonFiles = <<>>
            /\ call.env.jsFiles = <<>>
            /\ \A f \in Range(call.env.tsFiles) : AnalysisFailed(call.env, f))
               => call.result.value.issues = <<>>

\* Of two TypeScript files the first one's answer was no JSON and the second
\* one's two issues are the result's issues.
C12_Witness ==
    /\ call.fn = "analyzeCode"
    /\ call.analysisMode = "deep"
    /\ call.env.tsFiles = <<"c.ts", "e.ts">>
    /\ call.env.unreadable = {}
    /\ call.env.analysis["c.ts"].kind = "nojson"
    /\ call.env.analysis["e.ts"].kind = "array"
    /\ ~call.result.threw
    /\ Len(call.result.value.issues) = 2
    /\ \A k \in 1..2 : call.result.value.issues[k].file = "e.ts"

\* ---------------------------------------------------------------- C13
\* The fixed result of a failed job, written out.
IsEmptyFailedResult(results, id) ==
    /\ IsObject(results)
    /\ results.request_id = id
    /\ results.status = "failed"
    /\ results.summary.languages = <<>>
    /\ results.summary.total_files_analyzed = 0
    /\ results.summary.issues_count = [critical |-> 0, major |-> 0, minor |-> 0]
    /\ results.issues = <<>>
    /\ results.patches = <<>>
    /\ results.refactoredFiles = <<>>

\* C13: in in-process mode, when the preparation of the workspace fails or any
\* other exception escapes analyzeCode, the job ends failed with the fixed
\* empty result: once the pipeline has settled it is neither completed nor
\* processing, a run that threw always leads to the failed job, and the
\* handler answered the submission with its request_id and HTTP 200 when it
\* launched the pipeline.
C13_EscapedExceptionFailsJob ==
    /\ [](\A id \in Ids :
            (task[id].pc = "done" /\ run[id].pc = "threw") =>
                /\ jobs[id].status = "failed"
                /\ IsEmptyFailedResult(jobs[id].results, id))
    /\ [][\A id \in Ids :
            (task[id].pc = "created" /\ task'[id].pc # "created") =>
                (last'.op = "analyze" /\ last'.code = 200 /\ last'.id = id)]_vars
    /\ \A id \in Ids :
          (run[id].pc = "threw") ~> (id \in DOMAIN jobs /\ jobs[id].status = "failed")

\* The workspace was created, analyzeCode threw before any file was
\* classified, and the pipeline stored the failed job.
C13_Witness ==
    \E id \in Ids :
        /\ task[id].pc = "done"
        /\ run[id].pc = "threw"
        /\ run[id].tempDir = "removed"
        /\ last.op = "pipeline"
        /\ jobs[id].status = "failed"
        /\ jobs[id].results.issues = <<>>

\* ---------------------------------------------------------------- C14
\* analyzeCode has returned or thrown.
RunEnded(id) == run[id].pc \in {"returned", "threw"}

\* C14: for every run of analyzeCode that created its workspace directory the
\* removal of the directory is attempted exactly once on every exit path and
\* before analyzeCode returns or throws: never more than once, not at all
\* while the run is inside the try block, once when the run has ended; so the
\* removal has been attempted whenever the pipeline has set the job to
\* completed or failed.
C14_WorkspaceRemovedOnce ==
    \A id \in Ids :
        run[id].pc # "none" =>
            /\ run[id].rmCalls <= 1
            /\ (run[id].pc \in {"prepare", "classify", "analyze", "refactor", "finally"}
                    => run[id].rmCalls = 0)
            /\ (RunEnded(id) /\ run[id].tempDir # "none") => run[id].rmCalls = 1
            /\ (/\ task[id].pc = "done"
                /\ jobs[id].status \in {"completed", "failed"}
                /\ run[id].tempDir # "none") => run[id].rmCalls = 1

\* A run whose workspace preparation or classification failed has removed its
\* directory with one call and the pipeline has stored the failed job.
C14_Witness ==
    \E id \in Ids :
        /\ task[id].pc = "done"
        /\ run[id].pc = "threw"
        /\ run[id].pending = "throw"
        /\ run[id].tempDir = "removed"
        /\ run[id].rmCalls = 1
        /\ jobs[id].status = "failed"

\* ---------------------------------------------------------------- C15
\* The handler of POST /api/analyze has sent this id to its caller.
Disclosed(id) == task[id].pc \in {"running", "done", "delegated"}

\* C15: an accepted POST /api/analyze in in-process mode creates the job as
\* pending, sets it to processing and answers {request_id} while the pipeline
\* is still running; the id is not sent before the job is processing and no
\* job ever returns to pending, so no GET /api/status with an id that
\* /api/analyze has returned sees the status pending.
C15_DisclosedNeverPending ==
    /\ [][\A id \in DOMAIN jobs' \ DOMAIN jobs : jobs'[id].status = "pending"]_vars
    /\ []((last.op = "analyze" /\ last.code = 200 /\ ~N8N_WEBHOOK) =>
             /\ jobs[last.id].status = "processing"
             /\ task[last.id].pc = "running")
    /\ [](\A id \in Ids : Disclosed(id) => jobs[id].status # "pending")
    /\ []((last.op = "status" /\ last.code = 200 /\ Disclosed(last.id)) =>
             jobs[last.id].status # "pending")

\* GET /api/status for a returned id while its pipeline is still running: the
\* job is processing.
C15_Witness ==
    /\ ~N8N_WEBHOOK
    /\ last.op = "status"
    /\ last.code = 200
    /\ task[last.id].pc = "running"
    /\ jobs[last.id].status = "processing"

\* ---------------------------------------------------------------- C16
\* C16: with a webhook configured the in-process pipeline never runs; once a
\* job is processing its status and results change only in the step of an
\* accepted POST /api/callback for that job, so it stays processing until
\* such a callback; and the handler answers {request_id} with 200 when the
\* webhook call ends, however it ends, without touching the job.
C16_WebhookDelegates ==
    /\ [](N8N_WEBHOOK =>
             /\ last.op # "pipeline"
             /\ \A id \in Ids : task[id].pc \notin {"running", "done"})
    /\ [][N8N_WEBHOOK =>
             \A id \in DOMAIN jobs :
                 (/\ jobs[id].status # "pending"
                  /\ (jobs'[id].status # jobs[id].status
                         \/ jobs'[id].results # jobs[id].results))
                     => (last'.op = "callback" /\ last'.code = 200 /\ last'.id = id)]_vars
    /\ [][\A id \in Ids :
             (task[id].pc = "fetch" /\ task'[id].pc # "fetch") =>
                 /\ last' = [op |-> "analyze", code |-> 200, id |-> id,
                              message |-> "", secret |-> Absent]
                 /\ task'[id].pc = "delegated"
                 /\ jobs' = jobs]_vars

\* A delegated job that stayed processing through the webhook call was just
\* completed by an accepted callback.
C16_Witness ==
    /\ N8N_WEBHOOK
    /\ last.op = "callback"
    /\ last.code = 200
    /\ task[last.id].pc = "delegated"
    /\ jobs[last.id].status = "completed"
    /\ IsObject(jobs[last.id].results)

\* ---------------------------------------------------------------- C17
RefactorFns == {"refactorFiles", "refactorFilesWithClient"}

\* The files handed to refactorFiles that could be read, in their order.
ReadableFiles(env) ==
    SelectSeq(env.pythonFiles \o env.jsFiles \o env.tsFiles,
              LAMBDA f : f \notin env.unreadable)

\* C17: refactorFiles returns one entry for every file it could read, in
\* order, whatever the provider did for that file or for another one; the
\* entry's original is the file's content, and its refactored text equals
\* the original whenever there is no AI client, the provider call threw
\* (retries included) or the response carried no text.
C17_RefactorFallsBackToOriginal ==
    call.fn \in RefactorFns =>
        LET out == call.result
            files == ReadableFiles(call.env)
        IN /\ Len(out) = Len(files)
           /\ \A k \in 1..Len(out) :
                 /\ out[k].file = files[k]
                 /\ out[k].original = call.env.content[files[k]]
                 /\ (\/ ~call.env.ai
                     \/ call.env.refactor[files[k]].kind \in {"throw", "notext"})
                        => out[k].refactored = out[k].original

\* With a client, the provider threw for the first of two files and rewrote
\* the second: both entries are there, the first with its original text.
C17_Witness ==
    /\ call.fn = "refactorFilesWithClient"
    /\ call.env.ai
    /\ call.env.unreadable = {}
    /\ call.env.pythonFiles = <<"a.py", "b.py">>
    /\ call.env.refactor["a.py"].kind = "throw"
    /\ call.env.refactor["b.py"].kind = "text"
    /\ Len(call.result) = 2
    /\ call.result[1].refactored = ContentOf("a.py")
    /\ call.result[2].refactored = "new"

\* ---------------------------------------------------------------- C18
Triple(issue) == <<issue.file, issue.line, issue.message>>

\* analyzePythonFiles was called and used pylint and pyflakes.
UsedFallback ==
    /\ call.fn = "analyzePythonFiles"
    /\ ~(call.env.ai /\ GeminiWorked(call.env))

\* What the two tools found, pylint's issues first.
ToolIssues ==
    analyzePythonWithPylint(call.env.pythonFiles, call.env)
        \o analyzePythonWithPyflakes(call.env.pythonFiles, call.env)

\* The position of the first issue with this (file, line, message).
FirstAt(found, triple) ==
    CHOOSE i \in 1..Len(found) :
        /\ Triple(found[i]) = triple
        /\ \A j \in 1..(i - 1) : Triple(found[j]) # triple

\* C18: when analyzePythonFiles uses the local tools, its result has no two
\* issues with the same (file, line, message): issues that agree in all
\* three collapse into one entry, and each entry of the result is the first
\* issue with its (file, line, message) in the order pylint's issues then
\* pyflakes' issues, the entries keeping that order.
C18_FallbackDeduplicated ==
    UsedFallback =>
        LET out == call.result
            found == ToolIssues
        IN /\ \A j, k \in 1..Len(out) : j # k => Triple(out[j]) # Triple(out[k])
           /\ \A k \in 1..Len(out) :
                 /\ \E i \in 1..Len(found) : Triple(found[i]) = Triple(out[k])
                 /\ out[k] = found[FirstAt(found, Triple(out[k]))]
           /\ \A j, k \in 1..Len(out) :
                 j < k => FirstAt(found, Triple(out[j])) < FirstAt(found, Triple(out[k]))

\* Without a client, pylint reported (a.py, 3, m) as an error and pyflakes
\* reported the same line and message: one entry, pylint's critical one.
C18_Witness ==
    /\ UsedFallback
    /\ ~call.env.ai
    /\ call.env.pythonFiles = <<"a.py">>
    /\ call.env.pylint["a.py"].kind = "array"
    /\ call.env.pylint["a.py"].issues[1].type = "error"
    /\ call.env.pyflakes["a.py"].kind = "lines"
    /\ call.env.pyflakes["a.py"].lines[1].message = "m"
    /\ Len(ToolIssues) > Len(call.result)
    /\ call.result[1] = [severity |-> "critical", file |-> "a.py", line |-> 3, message |-> "m"]
    /\ \A k \in 2..Len(call.result) : Triple(call.result[k]) # <<"a.py", 3, "m">>

\* ---------------------------------------------------------------- C19
\* A per-file provider call (analysis or refactor) is inside retryWithBackoff.
AtCallSite == retry.pc # "none" /\ retry.site \in ProviderCallSites

\* Every attempt so far failed with the rate-limit error.
AllRateLimited == \A k \in 1..Len(retry.errors) : retry.errors[k] = 429

\* C19 as stated: a per-file provider call whose every attempt fails with
\* status 429 is retried up to 3 times, waiting 1 s before the first retry
\* and twice the previous wait before each further one, and the error is
\* propagated only after that.
C19_ThreeRetriesFromOneSecond ==
    (AtCallSite /\ AllRateLimited) =>
        /\ Len(retry.waits) <= 3
        /\ \A k \in 1..Len(retry.waits) : retry.waits[k] = 1000 * 2^(k - 1)

\* C19 amended: a per-file provider call is made at most 3 times (at most 2
\* retries); when every attempt fails with status 429 the waits are 2 s
\* before the first retry and 4 s before the second, and the third failure is
\* propagated without a further wait.
C19_TwoRetriesFromTwoSeconds ==
    AtCallSite =>
        /\ retry.calls <= 3
        /\ Len(retry.waits) <= 2
        /\ \A k \in 1..Len(retry.waits) : retry.waits[k] = 2000 * 2^(k - 1)
        /\ (retry.pc = "threw" /\ AllRateLimited) =>
               /\ retry.calls = 3
               /\ retry.errors = <<429, 429, 429>>
               /\ retry.waits = <<2000, 4000>>
               /\ retry.thrown = 429

\* The analysis call of a file was rate-limited three times and gave up.
C19_Witness ==
    /\ retry.pc = "threw"
    /\ retry.site = "analyzeFileWithGemini"
    /\ retry.errors = <<429, 429, 429>>
    /\ retry.waits = <<2000, 4000>>
    /\ retry.calls = 3

\* ---------------------------------------------------------------- C20
\* C20: retryWithBackoff retries only after a rate-limit error: an attempt
\* that fails with any other status is the last one and its error is thrown
\* with no wait after it; an attempt that succeeds is the last one and its
\* value is returned; fn is never called more than maxRetries times, and a
\* call that has returned or thrown does nothing more.
C20_RetryOnlyOnRateLimit ==
    /\ [](retry.pc # "none" =>
             /\ retry.calls <= retry.maxRetries
             /\ \A k \in 1..(Len(retry.errors) - 1) : retry.errors[k] = 429
             /\ (retry.pc \in {"call", "sleep"} => AllRateLimited)
             /\ (retry.pc = "sleep" => Len(retry.waits) = Len(retry.errors))
             /\ (retry.pc = "threw" /\ retry.errors # <<>>) =>
                    /\ retry.calls = Len(retry.errors)
                    /\ retry.thrown = retry.errors[Len(retry.errors)]
                    /\ Len(retry.waits) = Len(retry.errors) - 1
             /\ (retry.pc = "returned") =>
                    /\ retry.calls = Len(retry.errors) + 1
                    /\ retry.value # Absent
                    /\ Len(retry.waits) = Len(retry.errors))
    /\ [][retry.pc \in {"returned", "threw"} => retry' = retry]_vars
    /\ [][(retry.pc = "call" /\ retry'.pc = "returned") =>
             \E outcome \in AttemptOutcomes :
                 outcome.kind = "value" /\ retry'.value = outcome.value
                     /\ RetryAttempt(outcome)]_vars

\* After one rate-limit error and one wait the second attempt failed with
\* status 500, which was thrown at once.
C20_Witness ==
    /\ retry.pc = "threw"
    /\ retry.maxRetries = 4
    /\ retry.errors = <<429, 500>>
    /\ retry.thrown = 500
    /\ retry.calls = 2
    /\ Len(retry.waits) = 1

\* ---------------------------------------------------------------- C21
AnalyzeGroupFns == {"analyzeGroup", "analyzeGroupWithFallback"}

PhaseSuccessors(pc) ==
    CASE pc = "none"     -> {"prepare", "threw"}
      [] pc = "prepare"  -> {"classify", "finally"}
      [] pc = "classify" -> {"analyze", "finally"}
      [] pc = "analyze"  -> {"analyze", "refactor"}
      [] pc = "refactor" -> {"refactor", "finally"}
      [] pc = "finally"  -> {"returned", "threw"}
      [] OTHER           -> {}

ClassifiedFiles(r) == r.pythonFiles \o r.jsFiles \o r.tsFiles

IsSuffix(s, t) == Len(s) <= Len(t) /\ s = SubSeq(t, Len(t) - Len(s) + 1, Len(t))

C22_PhasesInOrderOneCallAtATime ==
    [][/\ \A id \in PipelineIds :
             run'[id] # run[id] =>
                 /\ run'[id].pc \in PhaseSuccessors(run[id].pc)
                 /\ run[id].pc = "classify" /\ run'[id].pc = "analyze" =>
                        run'[id].queue = ClassifiedFiles(run'[id])
                 /\ run[id].pc \in {"analyze", "refactor"} /\ run'[id].pc = run[id].pc =>
                        /\ run[id].queue # <<>>
                        /\ run'[id].queue = Tail(run[id].queue)
                 /\ run[id].pc = "analyze" /\ run'[id].pc = "refactor" =>
                        /\ run[id].queue = <<>>
                        /\ run'[id].queue = ClassifiedFiles(run[id])
                        /\ run'[id].refactoredFiles = <<>>
                 /\ run[id].pc = "refactor" /\ run'[id].pc = "finally" =>
                        run[id].queue = <<>>
                 /\ run'[id].pc \in {"analyze", "refactor"} =>
                        IsSuffix(run'[id].queue, ClassifiedFiles(run'[id]))
       /\ \A id1, id2 \in PipelineIds :
             id1 # id2 => run'[id1] = run[id1] \/ run'[id2] = run[id2]]_vars

\* Both pipelines are under way at once: one is refactoring while the other
\* is still analysing its second file.
C22_Witness ==
    /\ run["req-1"].pc = "refactor" /\ Len(run["req-1"].queue) = 2
    /\ run["req-2"].pc = "analyze" /\ run["req-2"].queue = <<"d.js", "c.ts">>
\* C23: in in-process mode the job of every accepted submission eventually
\* has status completed or failed, provided the pipeline is scheduled and
\* every awaited call returns or throws; no path of the pipeline ends with
\* the job still processing.
JobSettled(id) == id \in DOMAIN jobs /\ jobs[id].status \in {"completed", "failed"}

C23_AcceptedJobEventuallySettles ==
    \A id \in Ids : (id \in DOMAIN jobs) ~> JobSettled(id)

\* A pipeline that went through every phase, analysed and refactored a file,
\* and whose result has been stored.
C23_Witness ==
    \E id \in DOMAIN jobs :
        /\ JobSettled(id)
        /\ task[id].pc = "done"
        /\ run[id].pc = "returned"
        /\ jobs[id].status = "completed"
        /\ Len(jobs[id].results.refactoredFiles) > 0
\* C24: in every result analyzeCode returns, refactoredFiles has exactly one
\* entry for every classified file, in classification order (Python, then
\* JavaScript, then TypeScript), so that its length is
\* summary.total_files_analyzed.
EntryFiles(refactoredFiles) == [i \in 1..Len(refactoredFiles) |-> refactoredFiles[i].file]

C24_OneEntryPerClassifiedFile ==
    (call.fn \in AnalyzeCodeFns /\ ~call.result.threw) =>
        LET result == call.result.value
        IN /\ EntryFiles(result.refactoredFiles) =
                  call.env.pythonFiles \o call.env.jsFiles \o call.env.tsFiles
           /\ Len(result.refactoredFiles) = result.summary.total_files_analyzed
\* C25: a file of the workspace is put in a group iff it is a regular file,
\* no component of its path below the root starts with '.' or is node_modules,
\* __pycache__ or venv, every directory on its path can be read, and its
\* lower-cased extension belongs to the group (.py; .js, .jsx, .mjs; .ts,
\* .tsx); no file is in two groups; every issue and every refactoredFiles
\* entry of the result names a classified file; an unreadable directory
\* yields no files and analyzeCode still returns a completed result.
RECURSIVE EntriesBelow(_, _, _)
EntriesBelow(dir, path, reachable) ==
    UNION { IF e.kind = "dir"
            THEN EntriesBelow(e, Append(path, e.name), reachable /\ e.readable)
            ELSE {[path |-> Append(path, e.name), kind |-> e.kind, reachable |-> reachable]}
            : e \in Range(dir.entries) }

RECURSIVE PathStr(_)
PathStr(path) ==
    IF Len(path) = 1 THEN Str(path[1]) ELSE Str(path[1]) \o "/" \o PathStr(Tail(path))

ExcludedComponent(name) ==
    \/ name[1] = "."
    \/ Str(name) \in {"node_modules", "__pycache__", "venv"}

LowerCasedExtension(name) == Str(toLowerCase(extname(name)))

ExpectedGroup(tree, extensions) ==
    { PathStr(e.path) : e \in
        { f \in EntriesBelow(tree, <<>>, tree.readable) :
            /\ f.kind = "file"
            /\ f.reachable
            /\ \A k \in 1..Len(f.path) : ~ExcludedComponent(f.path[k])
            /\ LowerCasedExtension(f.path[Len(f.path)]) \in extensions } }

C25_ClassifierGroups ==
    (call.fn = "analyzeCode" /\ "tree" \in DOMAIN call.env) =>
        LET env == call.env
            py == Range(env.pythonFiles)
            js == Range(env.jsFiles)
            ts == Range(env.tsFiles)
        IN /\ py = ExpectedGroup(env.tree, {".py"})
           /\ js = ExpectedGroup(env.tree, {".js", ".jsx", ".mjs"})
           /\ ts = ExpectedGroup(env.tree, {".ts", ".tsx"})
           /\ py \cap js = {} /\ py \cap ts = {} /\ js \cap ts = {}
           /\ Len(env.pythonFiles) + Len(env.jsFiles) + Len(env.tsFiles)
                  = Cardinality(py \cup js \cup ts)
           /\ ~call.result.threw
           /\ call.result.value.status = "completed"
           /\ \A k \in 1..Len(call.result.value.issues) :
                  call.result.value.issues[k].file \in py \cup js \cup ts
           /\ \A k \in 1..Len(call.result.value.refactoredFiles) :
                  call.result.value.refactoredFiles[k].file \in py \cup js \cup ts

\* A tree with an upper-case extension, a hidden file, a text file, skipped
\* directories and an unreadable src directory: only a.py and B.PY are
\* classified and reported.
C25_Witness ==
    /\ call.fn = "analyzeCode" /\ "tree" \in DOMAIN call.env
    /\ call.env.tree.readable
    /\ Len(call.env.tree.entries) = 9
    /\ ~call.env.tree.entries[6].readable
    /\ call.env.pythonFiles = <<"a.py", "B.PY">>
    /\ call.env.jsFiles = <<>> /\ call.env.tsFiles = <<>>
    /\ Len(call.result.value.issues) = 2
    /\ Len(call.result.value.refactoredFiles) = 2

\* The same tree with src readable: files of all three groups, below src too.
C25_NestedWitness ==
    /\ call.fn = "analyzeCode" /\ "tree" \in DOMAIN call.env
    /\ call.env.pythonFiles = <<"a.py", "B.PY">>
    /\ call.env.jsFiles = <<"src/d.jsx", "src/lib.js/e.mjs">>
    /\ call.env.tsFiles = <<"src/c.TS">>
\* C26: every issue of every result analyzeCode returns has an integer line
\* number that is at least 1, whatever line the provider or a local tool
\* reported.
C26_LinesAtLeastOne ==
    (call.fn \in AnalyzeCodeFns /\ ~call.result.threw) =>
        \A k \in 1..Len(call.result.value.issues) :
            /\ call.result.value.issues[k].line \in Nat
            /\ call.result.value.issues[k].line >= 1
\* C27: a job record is never removed; getJob returns the record of every
\* created job in every later state; across updateJobStatus calls (those of
\* pipeline completions and callbacks included) on any job the record's id,
\* createdAt, analysisMode and repoUrl keep their values; an update of one
\* job changes no field of another job; updateJobStatus on an unknown id
\* returns undefined and creates no record.
CreationFields(job) ==
    [id |-> job.id, createdAt |-> job.createdAt,
     analysisMode |-> job.analysisMode, repoUrl |-> job.repoUrl]

C27_RecordsKeptAndFramed ==
    [][/\ DOMAIN jobs \subseteq DOMAIN jobs'
       /\ call'.fn = "getJob" =>
             /\ jobs' = jobs
             /\ call'.id \in DOMAIN jobs => call'.returned = jobs[call'.id]
             /\ call'.id \notin DOMAIN jobs => call'.returned = Undefined
       /\ call'.fn = "updateJobStatus" =>
             /\ DOMAIN jobs' = DOMAIN jobs
             /\ \A id \in DOMAIN jobs :
                   /\ CreationFields(jobs'[id]) = CreationFields(jobs[id])
                   /\ jobs'[id].id = id
                   /\ id # call'.id => jobs'[id] = jobs[id]
             /\ call'.id \notin DOMAIN jobs =>
                   /\ call'.returned = Undefined
                   /\ jobs' = jobs
             /\ call'.id \in DOMAIN jobs => call'.returned = jobs'[call'.id]]_vars

\* One of two jobs has been updated at a later time than it was created; the
\* other job, created with other data, is still as createJob made it.
C27_Witness ==
    /\ call.fn = "updateJobStatus" /\ call.id = "req-1"
    /\ DOMAIN jobs = StoreIds
    /\ jobs["req-1"].status = "completed" /\ jobs["req-1"].results = Scalar
    /\ jobs["req-1"].createdAt = 0 /\ jobs["req-1"].updatedAt = 1
    /\ jobs["req-1"].analysisMode = "quick"
    /\ jobs["req-2"].status = "pending" /\ jobs["req-2"].analysisMode = "deep"

\* An update of an id that keys no record returned undefined.
C27_UnknownIdWitness ==
    /\ call.fn = "updateJobStatus" /\ call.id = UnknownId
    /\ call.returned = Undefined
    /\ DOMAIN jobs = StoreIds

\* C29: createJob never returns an id that already keys a record, so it
\* replaces or alters no existing record and the number of stored jobs grows
\* by exactly one with every createJob call.
C29_CreateJobIdsUnique ==
    [][(call'.fn = "createJob" /\ (call' # call \/ jobs' # jobs)) =>
          /\ call'.returned.id \notin DOMAIN jobs
          /\ Cardinality(DOMAIN jobs') = Cardinality(DOMAIN jobs) + 1
          /\ \A id \in DOMAIN jobs : jobs'[id] = jobs[id]]_vars
\* C28: in every reachable state, and so for every status read, a job whose
\* status is completed has results that are present and not null, whether
\* the completion was written by the in-process pipeline or by POST
\* /api/callback.
C28_CompletedHasResults ==
    \A id \in DOMAIN jobs :
        jobs[id].status = "completed" =>
            /\ jobs[id].results # Undefined
            /\ jobs[id].results # Null
\* C30: the deduplication of the local tools' issues drops an issue only if
\* an earlier issue has the same file, the same line and the same message:
\* of issues that differ in the file, the line or the message both are kept,
\* also when file names or messages contain ':'.
C30_DropsOnlySameTriple ==
    UsedFallback =>
        LET out == call.result
            found == ToolIssues
        IN \A k \in 1..Len(found) :
               (\A j \in 1..(k - 1) : Triple(found[j]) # Triple(found[k])) =>
                   \E i \in 1..Len(out) : out[i] = found[k]

====
